---------------------------- MODULE Spec2Model ----------------------------
(***************************************************************************)
(* State-mirror: patch-based synchronisation of a watched object.         *)
(*                                                                         *)
(* The module models the coordinator (StateMirrorWatcher), the offline     *)
(* queue (OfflineQueue), the transport (Broadcaster), the diff engine      *)
(* (DiffEngine) and the JSON-patch application and comparison the          *)
(* coordinator delegates to the fast-json-patch library.                   *)
(*                                                                         *)
(* Values.  The watched object has the fixed shape                         *)
(*     { x: number?, list: number[], user: { name: number? } }             *)
(* A missing property (JavaScript undefined) is the number Undef.  A JSON  *)
(* pointer "/a/b" is the sequence <<"a", "b">> of its segments; array      *)
(* indices are the segments "0", "1", ... and "-".                         *)
(***************************************************************************)
EXTENDS Integers, Sequences, FiniteSets, TLC

(***************************************************************************)
(* Bounds of the model.                                                    *)
(***************************************************************************)
MaxVal == 1
MaxList == 2
MaxPatches == 2
MaxTime == 1
MaxDiffPatches == 1
MaxConnects == 1
MaxPlugins == 2
MaxDelay == 2
MaxCalls == 3
MaxClock == 4
MaxHandlers == 2

Undef == -1

Val == 0..MaxVal
ValU == Val \cup {Undef}

Min(a, b) == IF a <= b THEN a ELSE b

Max(a, b) == IF a >= b THEN a ELSE b

(***************************************************************************)
(* JSON pointers and operations (fast-json-patch).                         *)
(***************************************************************************)
IndexSegs == <<"0", "1", "2", "3", "4">>

\* isInteger(key) of fast-json-patch, on the segments the model uses
isInteger(seg) == \E i \in 1..Len(IndexSegs) : IndexSegs[i] = seg

\* ~~key : the number an integer segment denotes
ToIndex(seg) == (CHOOSE i \in 1..Len(IndexSegs) : IndexSegs[i] = seg) - 1

\* the segment that denotes an array index
IndexSeg(i) == IndexSegs[i + 1]

Op(kind, path, value) == [op |-> kind, path |-> path, value |-> value]

\* Array.prototype.splice(i, 0, v)
SpliceIn(arr, i, v) ==
  LET k == Min(i, Len(arr))
  IN  SubSeq(arr, 1, k) \o <<v>> \o SubSeq(arr, k + 1, Len(arr))

\* Array.prototype.splice(i, 1)
SpliceOut(arr, i) ==
  IF i < Len(arr)
  THEN SubSeq(arr, 1, i) \o SubSeq(arr, i + 2, Len(arr))
  ELSE arr

Ok(doc) == [ok |-> TRUE, doc |-> doc]

Threw(doc) == [ok |-> FALSE, doc |-> doc]

\* objOps of fast-json-patch on an object property holding a number
objOp(kind, cur, value) ==
  CASE kind = "add" -> [ok |-> TRUE, v |-> value]
    [] kind = "replace" -> [ok |-> TRUE, v |-> value]
    [] kind = "remove" -> [ok |-> TRUE, v |-> Undef]
    [] kind = "test" -> [ok |-> cur = value, v |-> cur]
    [] OTHER -> [ok |-> FALSE, v |-> cur]

\* arrOps of fast-json-patch on an array of numbers; key "-" is the length
arrOp(kind, arr, seg, value) ==
  LET i == IF seg = "-" THEN Len(arr) ELSE ToIndex(seg)
  IN  CASE kind = "add" -> [ok |-> TRUE, v |-> SpliceIn(arr, i, value)]
        [] kind = "remove" -> [ok |-> TRUE, v |-> SpliceOut(arr, i)]
        [] kind = "replace" /\ i < Len(arr) ->
             [ok |-> TRUE, v |-> [arr EXCEPT ![i + 1] = value]]
        [] kind = "replace" /\ i >= Len(arr) ->
             [ok |-> TRUE, v |-> Append(arr, value)]
        [] kind = "test" ->
             [ok |-> i < Len(arr) /\ arr[i + 1] = value, v |-> arr]
        [] OTHER -> [ok |-> FALSE, v |-> arr]

\* an operation that is accepted and not applied
skipOperation(doc, o) == Ok(doc)

\* applyOperation(document, operation) with mutateDocument = true and no
\* validation: walks the pointer from the root; a segment through a missing
\* property is a TypeError, a failing test a JsonPatchError.  The document
\* returned with ok = FALSE is the document as the throw leaves it.
applyOperation(doc, o) ==
  LET p == o.path
  IN  CASE p = <<"x">> ->
             LET r == objOp(o.op, doc.x, o.value)
             IN  [ok |-> r.ok, doc |-> [doc EXCEPT !.x = r.v]]
        [] Len(p) = 2 /\ p[1] = "user" /\ p[2] = "name" ->
             LET r == objOp(o.op, doc.user.name, o.value)
             IN  [ok |-> r.ok, doc |-> [doc EXCEPT !.user.name = r.v]]
        [] Len(p) = 2 /\ p[1] = "list" /\ (isInteger(p[2]) \/ p[2] = "-") ->
             LET r == arrOp(o.op, doc.list, p[2], o.value)
             IN  [ok |-> r.ok, doc |-> [doc EXCEPT !.list = r.v]]
        [] OTHER -> Threw(doc)

\* jsonpatch.applyPatch(document, patch): the operations one after the other
\* on the document itself; the first throw ends the loop.
RECURSIVE jsonApplyPatch(_, _)
jsonApplyPatch(doc, ops) ==
  IF ops = <<>> THEN Ok(doc)
  ELSE LET r == applyOperation(doc, Head(ops))
       IN  IF r.ok THEN jsonApplyPatch(r.doc, Tail(ops)) ELSE r

(***************************************************************************)
(* jsonpatch.compare(mirror, obj): _generate of fast-json-patch.           *)
(***************************************************************************)
\* one property holding a number: the first loop (old keys) of _generate
genOld(path, old, new) ==
  IF old = Undef THEN <<>>
  ELSE IF new = Undef THEN <<Op("remove", path, Undef)>>
  ELSE IF old # new THEN <<Op("replace", path, new)>>
  ELSE <<>>

\* one property holding a number: the second loop (new keys) of _generate
genNew(path, old, new) ==
  IF old = Undef /\ new # Undef THEN <<Op("add", path, new)>> ELSE <<>>

\* first loop over an array's old indices, last index first
RECURSIVE genArrOld(_, _, _, _)
genArrOld(path, old, new, i) ==
  IF i = 0 THEN <<>>
  ELSE (IF i <= Len(new)
        THEN (IF old[i] # new[i]
              THEN <<Op("replace", Append(path, IndexSeg(i - 1)), new[i])>>
              ELSE <<>>)
        ELSE <<Op("remove", Append(path, IndexSeg(i - 1)), Undef)>>)
       \o genArrOld(path, old, new, i - 1)

\* second loop over an array's new indices
RECURSIVE genArrNew(_, _, _, _)
genArrNew(path, old, new, i) ==
  IF i > Len(new) THEN <<>>
  ELSE <<Op("add", Append(path, IndexSeg(i - 1)), new[i])>>
       \o genArrNew(path, old, new, i + 1)

genArr(path, old, new) ==
  genArrOld(path, old, new, Len(old)) \o genArrNew(path, old, new, Len(old) + 1)

genUser(path, old, new) ==
  genOld(Append(path, "name"), old.name, new.name)
  \o genNew(Append(path, "name"), old.name, new.name)

\* compare of two whole documents: old keys last first (user, list, x), the
\* nested containers recursively, then the added keys
compare(mirror, obj) ==
  genUser(<<"user">>, mirror.user, obj.user)
  \o genArr(<<"list">>, mirror.list, obj.list)
  \o genOld(<<"x">>, mirror.x, obj.x)
  \o genNew(<<"x">>, mirror.x, obj.x)

(***************************************************************************)
(* DiffEngine (core/diffEngine).                                           *)
(***************************************************************************)
NoBaseline == [isNull |-> TRUE, doc |-> [x |-> Undef, list |-> <<>>, user |-> [name |-> Undef]]]

\* deepClone: a structurally equal copy that shares nothing with its source
deepClone(obj) == obj

\* a setInitialState that keeps an empty object as the baseline, whatever
\* the state it is given
setInitialStateEmpty(s) ==
  [isNull |-> FALSE, doc |-> [x |-> Undef, list |-> <<>>, user |-> [name |-> Undef]]]

\* setInitialState(state)
setInitialState(s) == [isNull |-> FALSE, doc |-> deepClone(s)]

\* path.split('.')
Split(path) ==
  CASE path = "user.name" -> <<"user", "name">>
    [] OTHER -> <<path>>

\* getPathValue(obj, path) for the dotted paths of the filters
getPathValue(obj, path) ==
  CASE path = "x" -> obj.x
    [] path = "user.name" -> obj.user.name
    [] path = "user" -> obj.user
    [] path = "list" -> obj.list
    [] OTHER -> Undef

\* compare({[path]: previousValue}, {[path]: currentValue}) for number
\* values: the key is present on both sides, so a value that appears is a
\* replace and a value that disappears a remove
genWrapped(path, old, new) ==
  IF old = new THEN <<>>
  ELSE IF new = Undef THEN <<Op("remove", <<path>>, Undef)>>
  ELSE <<Op("replace", <<path>>, new)>>

\* lines 42-49 of generatePathPatch for one configured path: getPathValue on
\* both states, isEqual, and the comparison of the two wrapped values
pathOperations(prev, cur, path) ==
  CASE path = "x" -> genWrapped(path, prev.x, cur.x)
    [] path = "user.name" -> genWrapped(path, prev.user.name, cur.user.name)
    [] path = "user" -> genUser(<<path>>, prev.user, cur.user)
    [] path = "list" -> genArr(<<path>>, prev.list, cur.list)
    [] OTHER -> <<>>

\* lines 52-55: path: op.path === '' ? `/${path}` : `/${path}${op.path}`
adjustPath(path, o) == [o EXCEPT !.path = <<path>> \o o.path]

adjustAll(path, ops) == [i \in 1..Len(ops) |-> adjustPath(path, ops[i])]

RECURSIVE generatePathPatch(_, _, _)
generatePathPatch(prev, cur, paths) ==
  IF paths = <<>> THEN <<>>
  ELSE adjustAll(Head(paths), pathOperations(prev, cur, Head(paths)))
       \o generatePathPatch(prev, cur, Tail(paths))

\* a generatePatch that compares and leaves the baseline as it was
generatePatchKeepingBaseline(previous, cur, paths) ==
  [operations |-> IF previous.isNull THEN <<>>
                  ELSE IF Len(paths) > 0 THEN generatePathPatch(previous.doc, cur, paths)
                  ELSE compare(previous.doc, cur),
   previousState |-> IF previous.isNull THEN setInitialState(cur) ELSE previous]

\* generatePatch(currentState, paths): the operations and the new baseline
generatePatch(previous, cur, paths) ==
  IF previous.isNull
  THEN [operations |-> <<>>, previousState |-> setInitialState(cur)]
  ELSE [operations |-> IF Len(paths) > 0
                       THEN generatePathPatch(previous.doc, cur, paths)
                       ELSE compare(previous.doc, cur),
        previousState |-> setInitialState(cur)]

(***************************************************************************)
(* Patches.                                                                *)
(***************************************************************************)
Coords == {1, 2}

\* this.sourceId = uuidv4(), one per coordinator
SourceId(c) == c

PatchIds == 1..MaxPatches

NoPatch == [id |-> 0, timestamp |-> 0, source |-> 0, operations |-> <<>>, version |-> 0]

\* a patch whose version is not taken from the coordinator's counter
NewPatchVersionOne(id, ts, c, ops, ver) ==
  [id |-> id, timestamp |-> ts, source |-> SourceId(c), operations |-> ops, version |-> 1]

NewPatch(id, ts, c, ops, ver) ==
  [id |-> id, timestamp |-> ts, source |-> SourceId(c), operations |-> ops, version |-> ver]

Range(s) == {s[i] : i \in 1..Len(s)}

\* store.put(patch) with keyPath 'id'
Put(st, patch) == {q \in st : q.id # patch.id} \cup {patch}

\* a remove() that empties the store
DeleteEverything(st, patches) == {}

\* store.delete(patch.id) for every patch of the list
Delete(st, patches) == {q \in st : \A i \in 1..Len(patches) : patches[i].id # q.id}

\* store.getAll() (key order) with no sort after it
RECURSIVE PatchesInKeyOrder(_)
PatchesInKeyOrder(S) ==
  IF S = {} THEN <<>>
  ELSE LET m == CHOOSE p \in S : \A q \in S : p.id <= q.id
       IN  <<m>> \o PatchesInKeyOrder(S \ {m})

\* store.getAll() (key order) followed by the stable sort on timestamp
RECURSIVE SortPatches(_)
SortPatches(S) ==
  IF S = {} THEN <<>>
  ELSE LET m == CHOOSE p \in S : \A q \in S :
                   \/ p.timestamp < q.timestamp
                   \/ (p.timestamp = q.timestamp /\ p.id <= q.id)
       IN  <<m>> \o SortPatches(S \ {m})

(***************************************************************************)
(* State.  Every variable but the clock, the id pool and the record of the *)
(* last call is a function of the coordinator.                             *)
(***************************************************************************)
VARIABLES
  state,            \* StateMirrorWatcher.state: the watched object
  previousState,    \* DiffEngine.previousState: the baseline, or null
  paths,            \* config.paths: the filter, a sequence of dotted paths
  plugins,          \* StateMirrorWatcher.plugins, in registration order
  isWatching,       \* StateMirrorWatcher.isWatching
  isConnected,      \* StateMirrorWatcher.isConnected
  version,          \* StateMirrorWatcher.version
  connects,         \* the connect() calls awaiting broadcaster.connect()
  bcConnected,      \* Broadcaster._isConnected
  channels,         \* BroadcastChannel objects open with onmessage bound
  messageHandlers,  \* Broadcaster.messageHandlers: how many are registered
  store,            \* what the backend of the OfflineQueue holds
  storageAdapter,   \* OfflineQueue.storageAdapter: is a custom adapter given
  flushInProgress,  \* OfflineQueue.flushInProgress
  flushers,         \* the flush() calls that got past the lock
  sentLog,          \* what channel.postMessage accepted, in order
  inbox,            \* ids of the patches the transport has delivered
  now,              \* Date.now()
  usedIds,          \* the uuids drawn so far
  sinceWatch,       \* what has happened to the object since watch()
  lastCall,         \* the call the last step ran
  events,           \* the events that call emitted, in order
  hookCalls,        \* the plugin hooks that call invoked, in order
  throttledFunctions, \* ThrottleManager.throttledFunctions: its keys
  debouncedFunctions, \* ThrottleManager.debouncedFunctions: its keys
  debouncedSync,    \* the closure of the wrapper made by debounce()
  throttledSync,    \* the closure of the wrapper made by throttle()
  timers,           \* the pending timers of window.setTimeout
  calls,            \* the calls of the two wrappers so far
  invoked,          \* the invocations of the wrapped function so far
  eventHandlers     \* StateMirrorWatcher.eventHandlers, for one event

cfgVars == <<paths, plugins, storageAdapter>>

docVars == <<state, previousState, version, sinceWatch>>

connVars == <<isWatching, isConnected, connects, bcConnected, channels, messageHandlers>>

queueVars == <<store, flushInProgress, flushers, sentLog>>

envVars == <<inbox, now, usedIds>>

callVars == <<lastCall, events, hookCalls>>

managerVars == <<throttledFunctions, debouncedFunctions>>

wrapperVars == <<debouncedSync, throttledSync, timers, calls, invoked>>

schedVars == <<managerVars, wrapperVars>>

vars == <<cfgVars, docVars, connVars, queueVars, envVars, callVars, schedVars,
          eventHandlers>>

\* the record of a call: who ran what, on which operations or patch, how it
\* ended, for a delivery the source the envelope names, and for a sync()
\* what sinceWatch was when it was called
Call(c, name, ops, patch, res) ==
  [c |-> c, name |-> name, ops |-> ops, patch |-> patch, res |-> res, from |-> 0,
   was |-> IF name = "sync" THEN sinceWatch[c] ELSE "", trace |-> <<>>]

(***************************************************************************)
(* ThrottleManager.  A wrapper made by debounce() or throttle() is its     *)
(* closure: delay, timeoutId, lastArgs and, for throttle, lastCall, with   *)
(* the default options (debounce: trailing; throttle: leading and          *)
(* trailing).  A timer of window.setTimeout is pending from the call that  *)
(* set it until it fires or is cleared; its id is the number of the call   *)
(* that set it.  A timer fires at the instant it falls due, before any     *)
(* call made at that instant.                                              *)
(***************************************************************************)
\* timeoutId = null and lastArgs = null
NoTimer == 0
NoArgs == 0

\* `debounce-${func.toString()}-${delay}` and `throttle-...`
Key(kind, delay) == <<kind, delay>>

\* let timeoutId = null; let lastArgs = null
NewDebounced(delay) == [delay |-> delay, timeoutId |-> NoTimer, lastArgs |-> NoArgs]

\* let lastCall = 0: Date.now() is more than a delay later at every call
NewThrottled(delay) ==
  [delay |-> delay, lastCall |-> 0 - delay, timeoutId |-> NoTimer, lastArgs |-> NoArgs]

clearTimeout(ts, c, id) == {t \in ts : t.c # c \/ t.id # id}

setTimeout(ts, c, fn, id, due) ==
  ts \cup {[c |-> c, fn |-> fn, id |-> id, due |-> due]}

NoTimerDue == \A t \in timers : t.due > now

\* a debounced wrapper that leaves the timer of the call before pending
debouncedKeepingTimer(w, ts, c, id, args, t) ==
  [fn |-> [w EXCEPT !.lastArgs = args, !.timeoutId = id],
   timers |-> setTimeout(ts, c, "debounce", id, t + w.delay),
   invoked |-> <<>>]

\* the wrapper debounce() returns, called with args at time t; id is the
\* timeoutId of the timer it sets
debounced(w, ts, c, id, args, t) ==
  [fn |-> [w EXCEPT !.lastArgs = args, !.timeoutId = id],
   timers |-> setTimeout(IF w.timeoutId # NoTimer THEN clearTimeout(ts, c, w.timeoutId)
                         ELSE ts,
                         c, "debounce", id, t + w.delay),
   invoked |-> <<>>]

\* the callback of the timer of debounced
debouncedTimeout(w, t) ==
  IF w.lastArgs # NoArgs
  THEN [fn |-> [w EXCEPT !.lastArgs = NoArgs], invoked |-> <<w.lastArgs>>]
  ELSE [fn |-> w, invoked |-> <<>>]

\* a throttled wrapper that invokes the function on every call
throttledEveryCall(w, ts, c, id, args, t) ==
  [fn |-> [w EXCEPT !.lastArgs = args, !.lastCall = t],
   timers |-> ts,
   invoked |-> <<args>>]

\* the wrapper throttle() returns, called with args at time t
throttled(w, ts, c, id, args, t) ==
  IF t - w.lastCall >= w.delay
  THEN [fn |-> [w EXCEPT !.lastArgs = args, !.lastCall = t],
        timers |-> ts,
        invoked |-> <<args>>]
  ELSE [fn |-> [w EXCEPT !.lastArgs = args, !.timeoutId = id],
        timers |-> setTimeout(IF w.timeoutId # NoTimer
                              THEN clearTimeout(ts, c, w.timeoutId) ELSE ts,
                              c, "throttle", id, t + (w.delay - (t - w.lastCall))),
        invoked |-> <<>>]

\* the callback of the timer of throttled
throttledTimeout(w, t) ==
  IF w.lastArgs # NoArgs
  THEN [fn |-> [w EXCEPT !.lastCall = t, !.lastArgs = NoArgs], invoked |-> <<w.lastArgs>>]
  ELSE [fn |-> [w EXCEPT !.lastCall = t], invoked |-> <<>>]

\* ThrottleManager.clear(): the two maps are emptied
clear(functions) == {}

\* the invocations a call or a timer made, as they are recorded
Invocations(fn, by, argss) ==
  [i \in 1..Len(argss) |-> [fn |-> fn, by |-> by, at |-> now, args |-> argss[i]]]

(***************************************************************************)
(* Plugins (processPlugins).  A plugin is modelled by what its hook does   *)
(* with the data it is given: "pass" returns undefined, "null" returns     *)
(* null, "throw" throws, and "rewrite" returns { ...data, operations } with *)
(* operations of its own.  A plugin's id is its place in the order of      *)
(* registration.                                                           *)
(***************************************************************************)
PluginKinds == {"pass", "null", "throw", "rewrite"}

\* the operations a "rewrite" plugin puts into the patch it returns
RewriteOps == <<Op("replace", <<"user", "name">>, 1)>>

\* hookFn(processedData, this): whether it threw, whether the value it
\* returned is not undefined, and that value
hookFn(kind, given) ==
  CASE kind = "null" -> [threw |-> FALSE, defined |-> TRUE, value |-> NoPatch]
    [] kind = "throw" -> [threw |-> TRUE, defined |-> FALSE, value |-> given]
    [] kind = "rewrite" ->
         [threw |-> FALSE, defined |-> TRUE,
          value |-> [given EXCEPT !.operations = RewriteOps]]
    [] OTHER -> [threw |-> FALSE, defined |-> FALSE, value |-> given]

\* one turn of the loop: processedData, the hooks called, the events
\* emitted and the trace after the hook of plugin id returned or threw (r),
\* given what they were before it
afterHook(before, hook, id, r) ==
  [data |-> IF r.defined THEN r.value ELSE before.data,
   calls |-> Append(before.calls, hook),
   events |-> before.events \o (IF r.threw THEN <<"plugin-error">> ELSE <<>>),
   trace |-> Append(before.trace,
                    [hook |-> hook, plugin |-> id, given |-> before.data,
                     threw |-> r.threw,
                     pluginId |-> IF r.threw THEN id ELSE 0,
                     after |-> IF r.defined THEN r.value ELSE before.data])]

\* a turn of a loop that a throwing hook has ended: the plugins after it
\* are not called
callHookUnlessThrown(before, hook, id, kind) ==
  IF "plugin-error" \in Range(before.events) THEN before
  ELSE afterHook(before, hook, id, hookFn(kind, before.data))

\* try { hookFn(processedData, this) } catch { emit('plugin-error') }
callHook(before, hook, id, kind) ==
  afterHook(before, hook, id, hookFn(kind, before.data))

\* processPlugins(hook, data): the loop over this.plugins.values(), the last
\* plugin of ps after the ones before it.  trace has one entry for each hook
\* invoked: the plugin, the data it was given, whether it threw, the
\* pluginId of the 'plugin-error' event emitted for it (0: none), and
\* processedData after it.
RECURSIVE processPlugins(_, _, _)
processPlugins(ps, hook, data) ==
  IF ps = <<>> THEN [data |-> data, calls |-> <<>>, events |-> <<>>, trace |-> <<>>]
  ELSE callHook(processPlugins(SubSeq(ps, 1, Len(ps) - 1), hook, data),
                hook, Len(ps), ps[Len(ps)])

(***************************************************************************)
(* Outbound: broadcastPatch.                                               *)
(***************************************************************************)
\* Broadcaster.send succeeds: the broadcaster is connected and postMessage
\* (accepted) does not throw
sendSucceeds(c, accepted) == bcConnected[c] /\ accepted

\* a broadcastPatch that posts to the transport whatever the connection
broadcastPatchDirect(c, patch, accepted, st, log) ==
  [store |-> st, sent |-> Append(log, patch)]

\* broadcastPatch(patch): the offline queue when not connected or when the
\* send throws, the transport otherwise.  The result is the coordinator's
\* store and transport log after the call.
broadcastPatch(c, patch, accepted, st, log) ==
  IF ~isConnected[c] THEN [store |-> Put(st, patch), sent |-> log]
  ELSE IF sendSucceeds(c, accepted) THEN [store |-> st, sent |-> Append(log, patch)]
  ELSE [store |-> Put(st, patch), sent |-> log]

\* the promise broadcastPatch returns is fulfilled: the send's exception is
\* caught inside it
broadcastPatchResolves(c, patch, accepted) == TRUE

\* a handlePatch that does not compare the patch's source with its own id
isOwnPatchNever(c, patch) == FALSE

(***************************************************************************)
(* Inbound: handlePatch and applyPatch.                                    *)
(***************************************************************************)
\* if (patch.source === this.sourceId) return
isOwnPatch(c, patch) == patch.source = SourceId(c)

\* getCurrentPatch()
getCurrentPatch(c) == NoPatch

\* what a handler that did nothing leaves: the object as it was
Ignored(doc) == [doc |-> doc, events |-> <<>>, calls |-> <<>>, trace |-> <<>>]

\* the object after two steps, and what both emitted and invoked, in order
Sequel(first, rest) ==
  [doc |-> rest.doc,
   events |-> first.events \o rest.events,
   calls |-> first.calls \o rest.calls,
   trace |-> first.trace \o rest.trace]

\* the try of applyPatch, given what jsonpatch.applyPatch did (r) and what
\* the onApply hooks do (h): 'sync' after the hooks, or 'error'
applied(r, h) ==
  IF r.ok
  THEN [doc |-> r.doc, events |-> h.events \o <<"sync">>, calls |-> h.calls,
        trace |-> h.trace]
  ELSE [doc |-> r.doc, events |-> <<"error">>, calls |-> <<>>, trace |-> <<>>]

\* applyPatch(patch): jsonpatch.applyPatch on the watched object, then the
\* onApply hooks and 'sync'; 'error' when the application throws
applyPatch(c, doc, patch) ==
  applied(jsonApplyPatch(doc, patch.operations),
          processPlugins(plugins[c], "onApply", patch))

\* handlePatch after the onReceive hooks (h): nothing more when they left
\* no patch, applyPatch otherwise
received(c, doc, h) ==
  IF h.data = NoPatch
  THEN [doc |-> doc, events |-> h.events, calls |-> h.calls, trace |-> h.trace]
  ELSE Sequel(h, applyPatch(c, doc, h.data))

\* handlePatch(patch) on the watched object doc
handlePatch(c, doc, patch) ==
  IF isOwnPatch(c, patch) THEN Ignored(doc)
  ELSE received(c, doc, processPlugins(plugins[c], "onReceive", patch))

\* Broadcaster.handleMessage: a message of the receiver's own source is
\* dropped, every other one goes to each registered handler in turn
RECURSIVE notifyHandlers(_, _, _, _)

\* the handlers after the first, which left `first`
notifyRest(c, first, patch, n) ==
  Sequel(first, notifyHandlers(c, first.doc, patch, n))

notifyHandlers(c, doc, patch, n) ==
  IF n = 0 THEN Ignored(doc)
  ELSE notifyRest(c, handlePatch(c, doc, patch), patch, n - 1)

handleMessage(c, doc, msg) ==
  IF msg.source = SourceId(c) THEN Ignored(doc)
  ELSE notifyHandlers(c, doc, msg.data, messageHandlers[c])

(***************************************************************************)
(* OfflineQueue.flush: the lock.                                           *)
(***************************************************************************)
FlushIds == {1, 2}

IdleFlusher ==
  [pc |-> "idle", patches |-> <<>>, i |-> 0, successful |-> <<>>, failed |-> <<>>]

\* a flush() without the lock
flushNeverRejected(c) == FALSE

\* if (this.flushInProgress) return
flushRejected(c) == flushInProgress[c]

FreeSlots(c) == {f \in FlushIds : flushers[c][f].pc = "idle"}

FreeSlot(c) == CHOOSE f \in FreeSlots(c) : \A g \in FreeSlots(c) : f <= g

\* a flush() call can be followed: it returns at the lock, or there is a
\* slot to follow it in
CanFlush(c) == flushRejected(c) \/ FreeSlots(c) # {}

\* flush(send) up to its first await: the lock, then getAll() is pending
startFlush(c) ==
  IF flushRejected(c)
  THEN [fip |-> flushInProgress[c], fl |-> flushers[c], res |-> "in-progress"]
  ELSE [fip |-> TRUE,
        fl |-> [flushers[c] EXCEPT ![FreeSlot(c)] = [IdleFlusher EXCEPT !.pc = "getAll"]],
        res |-> "started"]

(***************************************************************************)
(* Coordinator actions.                                                    *)
(***************************************************************************)
\* sinceWatch: "fresh" from watch() until the object is changed or synced,
\* "touched" once it has been changed, "synced" once sync() has run
touch(c, doc) ==
  IF sinceWatch[c] = "fresh" /\ doc # state[c] THEN "touched" ELSE sinceWatch[c]

\* watch(state, config): the baseline, connect() up to its await, isWatching.
\* `outcomes` says whether the BroadcastChannel can be opened.
Watch(c, outcomes) ==
  /\ Len(connects[c]) < MaxConnects
  /\ channels[c] < MaxConnects
  /\ \E opened \in outcomes :
       /\ connects' = [connects EXCEPT ![c] = Append(@, IF opened THEN "ok" ELSE "fail")]
       /\ bcConnected' = [bcConnected EXCEPT ![c] = IF opened THEN TRUE ELSE @]
       /\ channels' = [channels EXCEPT ![c] = IF opened THEN @ + 1 ELSE @]
  /\ previousState' = [previousState EXCEPT ![c] = setInitialState(state[c])]
  /\ isWatching' = [isWatching EXCEPT ![c] = TRUE]
  /\ sinceWatch' = [sinceWatch EXCEPT ![c] = "fresh"]
  /\ lastCall' = Call(c, "watch", <<>>, NoPatch, "")
  /\ events' = <<"update">>
  /\ hookCalls' = <<>>
  /\ UNCHANGED <<cfgVars, schedVars, eventHandlers, state, version, isConnected, messageHandlers, queueVars, envVars>>

\* a connect() that goes on as connected whatever broadcaster.connect() did
connectAlwaysResolved(outcome) == TRUE

\* `await this.broadcaster.connect()` did not throw
connectResolved(outcome) == outcome = "ok"

\* connect() after `await this.broadcaster.connect()`
ConnectComplete(c) ==
  /\ connects[c] # <<>>
  /\ connects' = [connects EXCEPT ![c] = Tail(@)]
  /\ IF connectResolved(Head(connects[c]))
     THEN /\ CanFlush(c)
          /\ messageHandlers' = [messageHandlers EXCEPT ![c] = @ + 1]
          /\ isConnected' = [isConnected EXCEPT ![c] = TRUE]
          /\ flushInProgress' = [flushInProgress EXCEPT ![c] = startFlush(c).fip]
          /\ flushers' = [flushers EXCEPT ![c] = startFlush(c).fl]
          /\ lastCall' = Call(c, "connect", <<>>, NoPatch, startFlush(c).res)
          /\ events' = <<"connect">>
     ELSE /\ UNCHANGED <<messageHandlers, isConnected, flushInProgress, flushers>>
          /\ lastCall' = Call(c, "connect", <<>>, NoPatch, "failed")
          /\ events' = <<"error">>
  /\ hookCalls' = <<>>
  /\ UNCHANGED <<cfgVars, schedVars, eventHandlers, docVars, isWatching, bcConnected, channels, store, sentLog, envVars>>

\* unwatch(): disconnect(), diffEngine.reset(), throttleManager.clear()
Unwatch(c) ==
  /\ isWatching' = [isWatching EXCEPT ![c] = FALSE]
  /\ channels' = [channels EXCEPT ![c] = IF bcConnected[c] THEN @ - 1 ELSE @]
  /\ bcConnected' = [bcConnected EXCEPT ![c] = FALSE]
  /\ messageHandlers' = [messageHandlers EXCEPT ![c] = 0]
  /\ isConnected' = [isConnected EXCEPT ![c] = FALSE]
  /\ previousState' = [previousState EXCEPT ![c] = NoBaseline]
  /\ throttledFunctions' = [throttledFunctions EXCEPT ![c] = clear(@)]
  /\ debouncedFunctions' = [debouncedFunctions EXCEPT ![c] = clear(@)]
  /\ lastCall' = Call(c, "unwatch", <<>>, NoPatch, "")
  /\ events' = <<"disconnect", "update">>
  /\ hookCalls' = <<>>
  /\ UNCHANGED <<cfgVars, wrapperVars, eventHandlers, state, version, sinceWatch,
                 connects, queueVars, envVars>>

\* an update() or sync() without the test of isWatching
neverReturnsEarly(c) == FALSE

\* update(), sync(): if (!this.isWatching) return
returnsEarly(c) == ~isWatching[c]

\* update(operations)
Update(c, opLists, ids) ==
  \E ops \in opLists :
    LET r == jsonApplyPatch(state[c], ops)
    IN  /\ Len(r.doc.list) <= MaxList
        /\ IF returnsEarly(c)
           THEN /\ lastCall' = Call(c, "update", ops, NoPatch, "not-watching")
                /\ events' = <<>>
                /\ hookCalls' = <<>>
                /\ UNCHANGED <<state, sinceWatch, version, store, sentLog, usedIds>>
           ELSE IF ~r.ok
           THEN /\ state' = [state EXCEPT ![c] = r.doc]
                /\ sinceWatch' = [sinceWatch EXCEPT ![c] = touch(c, r.doc)]
                /\ lastCall' = Call(c, "update", ops, NoPatch, "threw")
                /\ events' = <<"error">>
                /\ hookCalls' = <<>>
                /\ UNCHANGED <<version, store, sentLog, usedIds>>
           ELSE \E id \in ids \ usedIds, accepted \in BOOLEAN :
                  LET patch == NewPatch(id, now, c, ops, version[c] + 1)
                      h == processPlugins(plugins[c], "onSend", patch)
                      b == IF h.data # NoPatch
                           THEN broadcastPatch(c, h.data, accepted, store[c], sentLog[c])
                           ELSE [store |-> store[c], sent |-> sentLog[c]]
                  IN  /\ state' = [state EXCEPT ![c] = r.doc]
                      /\ sinceWatch' = [sinceWatch EXCEPT ![c] = touch(c, r.doc)]
                      /\ version' = [version EXCEPT ![c] = @ + 1]
                      /\ store' = [store EXCEPT ![c] = b.store]
                      /\ sentLog' = [sentLog EXCEPT ![c] = b.sent]
                      /\ usedIds' = usedIds \cup {id}
                      /\ lastCall' = [Call(c, "update", ops, patch, "applied")
                                         EXCEPT !.trace = h.trace]
                      /\ events' = h.events \o <<"update">>
                      /\ hookCalls' = h.calls
        /\ UNCHANGED <<cfgVars, schedVars, eventHandlers, previousState, connVars,
                       flushInProgress, flushers, inbox, now>>

\* sync(): generatePatch, and a patch when it reports changes
Sync(c, ids) ==
  LET d == generatePatch(previousState[c], state[c], paths[c])
  IN  /\ IF returnsEarly(c)
         THEN /\ lastCall' = Call(c, "sync", <<>>, NoPatch, "not-watching")
              /\ UNCHANGED <<previousState, sinceWatch, version, store, sentLog, usedIds>>
         ELSE /\ previousState' = [previousState EXCEPT ![c] = d.previousState]
              /\ sinceWatch' = [sinceWatch EXCEPT ![c] = "synced"]
              /\ IF Len(d.operations) = 0
                 THEN /\ lastCall' = Call(c, "sync", <<>>, NoPatch, "no-changes")
                      /\ UNCHANGED <<version, store, sentLog, usedIds>>
                 ELSE \E id \in ids \ usedIds, accepted \in BOOLEAN :
                        LET patch == NewPatch(id, now, c, d.operations, version[c] + 1)
                            b == broadcastPatch(c, patch, accepted, store[c], sentLog[c])
                        IN  /\ version' = [version EXCEPT ![c] = @ + 1]
                            /\ store' = [store EXCEPT ![c] = b.store]
                            /\ sentLog' = [sentLog EXCEPT ![c] = b.sent]
                            /\ usedIds' = usedIds \cup {id}
                            /\ lastCall' = Call(c, "sync", d.operations, patch, "changes")
      /\ events' = <<>>
      /\ hookCalls' = <<>>
      /\ UNCHANGED <<cfgVars, schedVars, eventHandlers, state, connVars, flushInProgress, flushers, inbox, now>>

\* the application assigns to the watched object directly
Mutate(c, docs) ==
  \E d \in docs :
    /\ d # state[c]
    /\ state' = [state EXCEPT ![c] = d]
    /\ sinceWatch' = [sinceWatch EXCEPT ![c] = touch(c, d)]
    /\ lastCall' = Call(c, "mutate", <<>>, NoPatch, "")
    /\ events' = <<>>
    /\ hookCalls' = <<>>
    /\ UNCHANGED <<cfgVars, schedVars, eventHandlers, previousState, version, connVars, queueVars, envVars>>

\* flushQueue(): offlineQueue.flush(broadcastPatch) up to its first await
FlushQueue(c) ==
  /\ CanFlush(c)
  /\ flushInProgress' = [flushInProgress EXCEPT ![c] = startFlush(c).fip]
  /\ flushers' = [flushers EXCEPT ![c] = startFlush(c).fl]
  /\ lastCall' = Call(c, "flushQueue", <<>>, NoPatch, startFlush(c).res)
  /\ events' = <<>>
  /\ hookCalls' = <<>>
  /\ UNCHANGED <<cfgVars, schedVars, eventHandlers, docVars, connVars, store, sentLog, envVars>>

\* getAll(): with a storage adapter `return []`, else the records of
\* store.getAll(); their order is that of SortPatches
getAll(c) == IF storageAdapter[c] THEN {} ELSE store[c]

\* the ways a request to the backend can end
StoreOutcomes == {"resolves", "rejects"}

\* a flush that releases the lock at the end of its try block only: an
\* exception leaves it held
unlockUnlessThrown(threw) == threw

\* finally { this.flushInProgress = false }: flushInProgress once the
\* flush has ended, whether or not it threw
unlock(threw) == FALSE

\* flush: getAll() resolves, and an empty queue ends the flush, or getAll()
\* rejects and the flush rethrows
FlushGetAllWith(c, f, outcomes) ==
  /\ flushers[c][f].pc = "getAll"
  /\ \E outcome \in outcomes \cap StoreOutcomes :
       LET ps == SortPatches(getAll(c))
           threw == outcome = "rejects"
       IN  /\ IF threw \/ ps = <<>>
              THEN /\ flushers' = [flushers EXCEPT ![c][f] = IdleFlusher]
                   /\ flushInProgress' = [flushInProgress EXCEPT ![c] = unlock(threw)]
              ELSE /\ flushers' = [flushers EXCEPT ![c][f] =
                                     [pc |-> "send", patches |-> ps, i |-> 1,
                                      successful |-> <<>>, failed |-> <<>>]]
                   /\ UNCHANGED flushInProgress
           /\ lastCall' = Call(c, "flush-getAll", <<>>, NoPatch,
                               IF threw THEN "threw" ELSE "")
  /\ events' = <<>>
  /\ hookCalls' = <<>>
  /\ UNCHANGED <<cfgVars, schedVars, eventHandlers, docVars, connVars, store, sentLog, envVars>>

\* flush over a backend whose requests succeed
FlushGetAll(c, f) == FlushGetAllWith(c, f, {"resolves"})

\* the send functions flush() can be handed: the coordinator's
\* broadcastPatch, and functions that resolve or reject and touch nothing
SendFunctions == {"broadcastPatch", "resolves", "rejects"}

\* flush: one turn of the loop, `await sendFunction(patch)`, for a send
\* function among `sends`
FlushSendWith(c, f, sends) ==
  /\ flushers[c][f].pc = "send"
  /\ \E send \in sends \cap SendFunctions, accepted \in BOOLEAN :
       LET fl == flushers[c][f]
           patch == fl.patches[fl.i]
           b == IF send = "broadcastPatch"
                THEN broadcastPatch(c, patch, accepted, store[c], sentLog[c])
                ELSE [store |-> store[c], sent |-> sentLog[c]]
           resolved == IF send = "broadcastPatch"
                       THEN broadcastPatchResolves(c, patch, accepted)
                       ELSE send = "resolves"
           done == fl.i = Len(fl.patches)
       IN  /\ send # "broadcastPatch" => accepted
           /\ store' = [store EXCEPT ![c] = b.store]
           /\ sentLog' = [sentLog EXCEPT ![c] = b.sent]
           /\ flushers' = [flushers EXCEPT ![c][f] =
                [pc |-> IF done THEN "remove" ELSE "send",
                 patches |-> fl.patches,
                 i |-> fl.i + 1,
                 successful |-> IF resolved THEN Append(fl.successful, patch)
                                ELSE fl.successful,
                 failed |-> IF resolved THEN fl.failed ELSE Append(fl.failed, patch)]]
           /\ lastCall' = Call(c, "flush-send", <<>>, patch,
                               IF resolved THEN "resolved" ELSE "rejected")
  /\ events' = <<>>
  /\ hookCalls' = <<>>
  /\ UNCHANGED <<cfgVars, schedVars, eventHandlers, docVars, connVars, flushInProgress, envVars>>

\* flushQueue()'s flush: the send function is broadcastPatch
FlushSend(c, f) == FlushSendWith(c, f, {"broadcastPatch"})

\* `Flushed ${successfulPatches.length} patches, ${failedPatches.length} failed`
flushOutcome(fl) ==
  IF fl.failed = <<>> THEN "all-sent"
  ELSE IF fl.successful = <<>> THEN "none-sent" ELSE "some-sent"

\* flush: remove(successfulPatches), which is called when there is a patch
\* to remove and can reject, leaving the store as it was; then the finally
\* block
FlushRemoveWith(c, f, outcomes) ==
  /\ flushers[c][f].pc = "remove"
  /\ \E outcome \in outcomes \cap StoreOutcomes :
       LET threw == outcome = "rejects" /\ flushers[c][f].successful # <<>>
       IN  /\ store' = [store EXCEPT ![c] =
                          IF threw THEN @ ELSE Delete(@, flushers[c][f].successful)]
           /\ flushInProgress' = [flushInProgress EXCEPT ![c] = unlock(threw)]
           /\ lastCall' = Call(c, "flush-remove", <<>>, NoPatch,
                               IF threw THEN "threw" ELSE flushOutcome(flushers[c][f]))
  /\ flushers' = [flushers EXCEPT ![c][f] = IdleFlusher]
  /\ events' = <<>>
  /\ hookCalls' = <<>>
  /\ UNCHANGED <<cfgVars, schedVars, eventHandlers, docVars, connVars, sentLog, envVars>>

\* flush over a backend whose requests succeed
FlushRemove(c, f) == FlushRemoveWith(c, f, {"resolves"})

\* offlineQueue.enqueue(patch), for a patch made at any of `times`
Enqueue(c, ids, times) ==
  \E id \in ids \ usedIds, ts \in times :
    LET patch == NewPatch(id, ts, c, <<Op("replace", <<"x">>, 1)>>, id)
    IN  /\ store' = [store EXCEPT ![c] = Put(@, patch)]
        /\ usedIds' = usedIds \cup {id}
        /\ lastCall' = Call(c, "enqueue", <<>>, patch, "")
        /\ events' = <<>>
        /\ hookCalls' = <<>>
        /\ UNCHANGED <<cfgVars, schedVars, eventHandlers, docVars, connVars, flushInProgress, flushers, sentLog,
                       inbox, now>>

\* offlineQueue.getAll(), called on its own
GetAll(c) ==
  /\ lastCall' = [Call(c, "getAll", <<>>, NoPatch, "") EXCEPT !.trace = SortPatches(getAll(c))]
  /\ events' = <<>>
  /\ hookCalls' = <<>>
  /\ UNCHANGED <<cfgVars, schedVars, eventHandlers, docVars, connVars, queueVars, envVars>>

\* getStatus(): `pending: patches.length` of getAll(), `processing` the same
\* while a flush holds the lock
getStatus(c) ==
  [pending |-> Cardinality(getAll(c)),
   processing |-> IF flushInProgress[c] THEN Cardinality(getAll(c)) ELSE 0]

\* offlineQueue.getStatus()
GetStatus(c) ==
  /\ lastCall' = [Call(c, "getStatus", <<>>, NoPatch, "") EXCEPT !.from = getStatus(c).pending]
  /\ events' = <<>>
  /\ hookCalls' = <<>>
  /\ UNCHANGED <<cfgVars, schedVars, eventHandlers, docVars, connVars, queueVars, envVars>>

\* a message has arrived on an open channel and Broadcaster.handleMessage
\* has left r
Received(c, msg, res, r) ==
  /\ channels[c] > 0
  /\ Len(r.doc.list) <= MaxList
  /\ state' = [state EXCEPT ![c] = r.doc]
  /\ sinceWatch' = [sinceWatch EXCEPT ![c] = touch(c, r.doc)]
  /\ lastCall' = [Call(c, "deliver", msg.data.operations, msg.data, res)
                     EXCEPT !.from = msg.source, !.trace = r.trace]
  /\ events' = r.events
  /\ hookCalls' = r.calls

\* a message arrives on an open channel: Broadcaster.handleMessage
Receive(c, msg, res) == Received(c, msg, res, handleMessage(c, state[c], msg))

\* a message from outside the model
Deliver(c, msgs) ==
  \E msg \in msgs :
    /\ Receive(c, msg, "")
    /\ UNCHANGED <<cfgVars, schedVars, eventHandlers, previousState, version, connVars, queueVars, envVars>>

\* the next message the peer posted, in posting order
DeliverPeer(c) ==
  \E d \in Coords \ {c} :
    /\ inbox[c] < Len(sentLog[d])
    /\ Receive(c, [source |-> SourceId(d), data |-> sentLog[d][inbox[c] + 1]], "peer")
    /\ inbox' = [inbox EXCEPT ![c] = @ + 1]
    /\ UNCHANGED <<cfgVars, schedVars, eventHandlers, previousState, version, connVars, queueVars, now, usedIds>>

\* time passes, up to limit: a timer that is due fires first
Pass(limit) ==
  /\ now < limit
  /\ NoTimerDue
  /\ now' = now + 1
  /\ lastCall' = Call(0, "tick", <<>>, NoPatch, "")
  /\ events' = <<>>
  /\ hookCalls' = <<>>
  /\ UNCHANGED <<cfgVars, schedVars, eventHandlers, docVars, connVars, queueVars, inbox, usedIds>>

Tick == Pass(MaxTime)

\* a call of the debounced wrapper; its arguments are the number of the call
Debounced(c) ==
  /\ Len(calls[c]) < MaxCalls
  /\ NoTimerDue
  /\ LET id == Len(calls[c]) + 1
         r == debounced(debouncedSync[c], timers, c, id, id, now)
     IN  /\ debouncedSync' = [debouncedSync EXCEPT ![c] = r.fn]
         /\ timers' = r.timers
         /\ calls' = [calls EXCEPT ![c] =
                        Append(@, [fn |-> "debounce", at |-> now, args |-> id])]
         /\ invoked' = [invoked EXCEPT ![c] = @ \o Invocations("debounce", "call", r.invoked)]
  /\ lastCall' = Call(c, "debounced", <<>>, NoPatch, "")
  /\ events' = <<>>
  /\ hookCalls' = <<>>
  /\ UNCHANGED <<cfgVars, docVars, connVars, queueVars, envVars, managerVars,
                 throttledSync, eventHandlers>>

\* the timer of the debounced wrapper fires
DebouncedTimeout(c) ==
  \E t \in timers :
    /\ t.c = c /\ t.fn = "debounce" /\ t.due <= now
    /\ LET r == debouncedTimeout(debouncedSync[c], now)
       IN  /\ debouncedSync' = [debouncedSync EXCEPT ![c] = r.fn]
           /\ invoked' = [invoked EXCEPT ![c] = @ \o Invocations("debounce", "timer", r.invoked)]
    /\ timers' = timers \ {t}
    /\ lastCall' = Call(c, "debounced-timeout", <<>>, NoPatch, "")
    /\ events' = <<>>
    /\ hookCalls' = <<>>
    /\ UNCHANGED <<cfgVars, docVars, connVars, queueVars, envVars, managerVars,
                   throttledSync, calls, eventHandlers>>

\* a call of the throttled wrapper
Throttled(c) ==
  /\ Len(calls[c]) < MaxCalls
  /\ NoTimerDue
  /\ LET id == Len(calls[c]) + 1
         r == throttled(throttledSync[c], timers, c, id, id, now)
     IN  /\ throttledSync' = [throttledSync EXCEPT ![c] = r.fn]
         /\ timers' = r.timers
         /\ calls' = [calls EXCEPT ![c] =
                        Append(@, [fn |-> "throttle", at |-> now, args |-> id])]
         /\ invoked' = [invoked EXCEPT ![c] = @ \o Invocations("throttle", "call", r.invoked)]
  /\ lastCall' = Call(c, "throttled", <<>>, NoPatch, "")
  /\ events' = <<>>
  /\ hookCalls' = <<>>
  /\ UNCHANGED <<cfgVars, docVars, connVars, queueVars, envVars, managerVars,
                 debouncedSync, eventHandlers>>

\* the timer of the throttled wrapper fires
ThrottledTimeout(c) ==
  \E t \in timers :
    /\ t.c = c /\ t.fn = "throttle" /\ t.due <= now
    /\ LET r == throttledTimeout(throttledSync[c], now)
       IN  /\ throttledSync' = [throttledSync EXCEPT ![c] = r.fn]
           /\ invoked' = [invoked EXCEPT ![c] = @ \o Invocations("throttle", "timer", r.invoked)]
    /\ timers' = timers \ {t}
    /\ lastCall' = Call(c, "throttled-timeout", <<>>, NoPatch, "")
    /\ events' = <<>>
    /\ hookCalls' = <<>>
    /\ UNCHANGED <<cfgVars, docVars, connVars, queueVars, envVars, managerVars,
                   debouncedSync, calls, eventHandlers>>

\* throttleManager.clear()
Clear(c) ==
  /\ throttledFunctions' = [throttledFunctions EXCEPT ![c] = clear(@)]
  /\ debouncedFunctions' = [debouncedFunctions EXCEPT ![c] = clear(@)]
  /\ lastCall' = Call(c, "clear", <<>>, NoPatch, "")
  /\ events' = <<>>
  /\ hookCalls' = <<>>
  /\ UNCHANGED <<cfgVars, docVars, connVars, queueVars, envVars, wrapperVars,
                 eventHandlers>>

(***************************************************************************)
(* on, off and emit, for the handlers of one event.  A handler is          *)
(* modelled by what it does when invoked: "returns", "throws", or "off":   *)
(* it removes itself with off().                                           *)
(***************************************************************************)
HandlerKinds == {"returns", "throws", "off"}

Handlers == [id : 1..MaxHandlers, kind : HandlerKinds]

\* handlers.indexOf(handler): 0 when it is not there
indexOf(hs, h) ==
  IF \E i \in 1..Len(hs) : hs[i] = h
  THEN CHOOSE i \in 1..Len(hs) : hs[i] = h /\ \A j \in 1..(i - 1) : hs[j] # h
  ELSE 0

\* on(event, handler): push
on(hs, h) == Append(hs, h)

\* off(event, handler): splice(indexOf(handler), 1)
off(hs, h) ==
  IF indexOf(hs, h) = 0 THEN hs
  ELSE SubSeq(hs, 1, indexOf(hs, h) - 1) \o SubSeq(hs, indexOf(hs, h) + 1, Len(hs))

\* handlers.forEach from index k on: len is the length when forEach began,
\* and an index the array no longer has is skipped.  Each handler runs in a
\* try whose catch logs the error.
RECURSIVE forEach(_, _, _, _)
forEach(hs, k, len, done) ==
  IF k > len THEN [handlers |-> hs, invoked |-> done]
  ELSE IF k > Len(hs) THEN forEach(hs, k + 1, len, done)
  ELSE forEach(IF hs[k].kind = "off" THEN off(hs, hs[k]) ELSE hs,
               k + 1, len, Append(done, hs[k]))

\* emit(event, data)
emit(hs) == forEach(hs, 1, Len(hs), <<>>)

On(c, handlers) ==
  \E h \in handlers :
    /\ Len(eventHandlers[c]) < MaxHandlers
    /\ eventHandlers' = [eventHandlers EXCEPT ![c] = on(@, h)]
    /\ lastCall' = Call(c, "on", <<>>, NoPatch, "")
    /\ events' = <<>>
    /\ hookCalls' = <<>>
    /\ UNCHANGED <<cfgVars, schedVars, docVars, connVars, queueVars, envVars>>

Off(c, handlers) ==
  \E h \in handlers :
    /\ eventHandlers' = [eventHandlers EXCEPT ![c] = off(@, h)]
    /\ lastCall' = Call(c, "off", <<>>, NoPatch, "")
    /\ events' = <<>>
    /\ hookCalls' = <<>>
    /\ UNCHANGED <<cfgVars, schedVars, docVars, connVars, queueVars, envVars>>

\* emit(event) called from outside: what it was called with the handlers
\* being, and the handlers it invoked, in order
Emit(c) ==
  LET r == emit(eventHandlers[c])
  IN  /\ eventHandlers' = [eventHandlers EXCEPT ![c] = r.handlers]
      /\ lastCall' = [c |-> c, name |-> "emit", ops |-> <<>>, patch |-> NoPatch,
                      res |-> "returned", from |-> 0, was |-> "", trace |-> <<>>,
                      handlers |-> eventHandlers[c], invoked |-> r.invoked]
      /\ events' = <<>>
      /\ hookCalls' = <<>>
      /\ UNCHANGED <<cfgVars, schedVars, docVars, connVars, queueVars, envVars>>

(***************************************************************************)
(* ConflictEngine.                                                         *)
(***************************************************************************)
\* `${local.id}-${incoming.id}-merged` and `...-path-resolved`
DerivedId(local, incoming, suffix) == <<local.id, incoming.id, suffix>>

\* a resolver that prefers the incoming patch whatever the timestamps
incomingAlwaysWins(local, incoming) == incoming

\* lastWriteWinsResolver
lastWriteWinsResolver(local, incoming) ==
  IF local.timestamp >= incoming.timestamp THEN local ELSE incoming

\* a merge that keeps the local operations and drops the incoming ones
mergeKeepingLocal(local, incoming) ==
  [id |-> DerivedId(local, incoming, "merged"),
   timestamp |-> Max(local.timestamp, incoming.timestamp),
   source |-> local.source,
   operations |-> local.operations,
   version |-> Max(local.version, incoming.version) + 1]

\* mergeResolver
mergeResolver(local, incoming) ==
  [id |-> DerivedId(local, incoming, "merged"),
   timestamp |-> Max(local.timestamp, incoming.timestamp),
   source |-> local.source,
   operations |-> local.operations \o incoming.operations,
   version |-> Max(local.version, incoming.version) + 1]

\* extractPaths(operations)
extractPaths(ops) == [i \in 1..Len(ops) |-> ops[i].path]

\* findIndex(op => getOperationPath(op) === path): 0 when there is none
findIndex(ops, path) ==
  IF \E i \in 1..Len(ops) : ops[i].path = path
  THEN CHOOSE i \in 1..Len(ops) :
         ops[i].path = path /\ \A j \in 1..(i - 1) : ops[j].path # path
  ELSE 0

\* localPaths.filter(path => incomingPaths.includes(path))
conflictingPaths(local, incoming) ==
  {p \in Range(extractPaths(local.operations)) :
     p \in Range(extractPaths(incoming.operations))}

\* the loop of pathBasedResolver over incoming.operations, from the k-th on
RECURSIVE resolveOperations(_, _, _, _)
resolveOperations(resolved, local, incoming, k) ==
  IF k > Len(incoming.operations) THEN resolved
  ELSE LET incomingOp == incoming.operations[k]
           hasConflict == incomingOp.path \in conflictingPaths(local, incoming)
           hasLocalOp == findIndex(local.operations, incomingOp.path) # 0
           index == findIndex(resolved, incomingOp.path)
           next == IF ~hasConflict THEN Append(resolved, incomingOp)
                   ELSE IF ~hasLocalOp \/ incoming.timestamp > local.timestamp
                   THEN IF index # 0 THEN [resolved EXCEPT ![index] = incomingOp]
                        ELSE Append(resolved, incomingOp)
                   ELSE resolved
       IN  resolveOperations(next, local, incoming, k + 1)

\* pathBasedResolver
pathBasedResolver(local, incoming) ==
  IF conflictingPaths(local, incoming) = {}
  THEN mergeResolver(local, incoming)
  ELSE [id |-> DerivedId(local, incoming, "path-resolved"),
        timestamp |-> Max(local.timestamp, incoming.timestamp),
        source |-> local.source,
        operations |-> resolveOperations(local.operations, local, incoming, 1),
        version |-> Max(local.version, incoming.version) + 1]

\* the resolvers a caller can pass or configure: none, the built-in ones, and
\* a custom resolver that throws
Resolvers == {"none", "merge", "pathBased", "throws"}

\* customResolver || instance.config.conflictResolver || defaultConflictResolver
selectResolver(customResolver, configResolver) ==
  IF customResolver # "none" THEN customResolver
  ELSE IF configResolver # "none" THEN configResolver
  ELSE "lastWriteWins"

\* resolver(local, incoming, instance): the patch returned, or a throw
runResolver(resolver, local, incoming) ==
  CASE resolver = "lastWriteWins" ->
         [threw |-> FALSE, patch |-> lastWriteWinsResolver(local, incoming)]
    [] resolver = "merge" ->
         [threw |-> FALSE, patch |-> mergeResolver(local, incoming)]
    [] resolver = "pathBased" ->
         [threw |-> FALSE, patch |-> pathBasedResolver(local, incoming)]
    [] OTHER -> [threw |-> TRUE, patch |-> NoPatch]

\* a resolveConflict whose try has no catch
resolveConflictNoCatch(local, incoming, customResolver, configResolver) ==
  runResolver(selectResolver(customResolver, configResolver), local, incoming)

\* resolveConflict(local, incoming, instance, customResolver)
resolveConflict(local, incoming, customResolver, configResolver) ==
  LET r == runResolver(selectResolver(customResolver, configResolver), local, incoming)
  IN  IF r.threw
      THEN [threw |-> FALSE, patch |-> lastWriteWinsResolver(local, incoming)]
      ELSE r

\* a test that also reports two paths of which one lies under the other
hasConflictsOverlapping(local, incoming) ==
  \E p \in Range(extractPaths(local.operations)),
     q \in Range(extractPaths(incoming.operations)) :
    \/ Len(p) <= Len(q) /\ SubSeq(q, 1, Len(p)) = p
    \/ Len(q) <= Len(p) /\ SubSeq(p, 1, Len(q)) = q

\* hasConflicts: localPaths.some(path => incomingPaths.includes(path))
hasConflicts(local, incoming) ==
  \E i \in 1..Len(local.operations) :
    extractPaths(local.operations)[i] \in Range(extractPaths(incoming.operations))

\* a call of conflictEngine.hasConflicts on two patches, and the call with
\* the patches exchanged
HasConflicts(locals, incomings) ==
  \E local \in locals, incoming \in incomings :
    /\ lastCall' = [c |-> 0, name |-> "hasConflicts", ops |-> <<>>,
                    patch |-> NoPatch, res |-> "returned", from |-> 0, was |-> "",
                    local |-> local, incoming |-> incoming,
                    conflicts |-> hasConflicts(local, incoming),
                    reverse |-> hasConflicts(incoming, local)]
    /\ events' = <<>>
    /\ hookCalls' = <<>>
    /\ UNCHANGED <<cfgVars, schedVars, eventHandlers, docVars, connVars, queueVars, envVars>>

\* a call of conflictEngine.resolveConflict on two patches that are left as
\* they were
Resolve(locals, incomings) ==
  \E local \in locals, incoming \in incomings,
     customResolver \in Resolvers, configResolver \in Resolvers :
    LET r == resolveConflict(local, incoming, customResolver, configResolver)
    IN  /\ lastCall' = [c |-> 0, name |-> "resolveConflict", ops |-> <<>>,
                        patch |-> r.patch, res |-> IF r.threw THEN "threw" ELSE "returned",
                        from |-> 0, was |-> "",
                        local |-> local, incoming |-> incoming,
                        resolver |-> selectResolver(customResolver, configResolver)]
        /\ events' = <<>>
        /\ hookCalls' = <<>>
        /\ UNCHANGED <<cfgVars, schedVars, eventHandlers, docVars, connVars, queueVars, envVars>>

(***************************************************************************)
(* Initial states: the coordinators as constructed, holding the objects    *)
(* they will watch and the configuration they will be given.               *)
(***************************************************************************)
InitStored(docs, pathCfgs, pluginCfgs, delays, adapters) ==
  /\ \E d \in docs : state = [c \in Coords |-> d]
  /\ \E a \in adapters : storageAdapter = [c \in Coords |-> a]
  /\ \E pc \in pathCfgs : paths = [c \in Coords |-> pc]
  /\ \E pl \in pluginCfgs : plugins = [c \in Coords |-> pl]
  /\ previousState = [c \in Coords |-> NoBaseline]
  /\ isWatching = [c \in Coords |-> FALSE]
  /\ isConnected = [c \in Coords |-> FALSE]
  /\ version = [c \in Coords |-> 0]
  /\ connects = [c \in Coords |-> <<>>]
  /\ bcConnected = [c \in Coords |-> FALSE]
  /\ channels = [c \in Coords |-> 0]
  /\ messageHandlers = [c \in Coords |-> 0]
  /\ store = [c \in Coords |-> {}]
  /\ flushInProgress = [c \in Coords |-> FALSE]
  /\ flushers = [c \in Coords |-> [f \in FlushIds |-> IdleFlusher]]
  /\ sentLog = [c \in Coords |-> <<>>]
  /\ inbox = [c \in Coords |-> 0]
  /\ now = 0
  /\ usedIds = {}
  /\ sinceWatch = [c \in Coords |-> "synced"]
  /\ lastCall = Call(0, "new", <<>>, NoPatch, "")
  /\ events = <<>>
  /\ hookCalls = <<>>
  /\ \E d \in delays, t \in delays :
       /\ debouncedSync = [c \in Coords |-> NewDebounced(d)]
       /\ throttledSync = [c \in Coords |-> NewThrottled(t)]
       /\ debouncedFunctions = [c \in Coords |-> {Key("debounce", d)}]
       /\ throttledFunctions = [c \in Coords |-> {Key("throttle", t)}]
  /\ timers = {}
  /\ calls = [c \in Coords |-> <<>>]
  /\ invoked = [c \in Coords |-> <<>>]
  /\ eventHandlers = [c \in Coords |-> <<>>]

\* the coordinator's own queue: `new OfflineQueue()`, without an adapter
InitWith(docs, pathCfgs, pluginCfgs, delays) ==
  InitStored(docs, pathCfgs, pluginCfgs, delays, {FALSE})

EmptyDoc == [x |-> 0, list |-> <<>>, user |-> [name |-> 0]]

(***************************************************************************)
(* Inputs of the specifications.                                           *)
(***************************************************************************)
\* update() arguments of the connection and queue specifications
XOps == {<<Op("replace", <<"x">>, 1)>>}

\* operation lists that arrive in patches and are passed to update(): a
\* replace, an insertion into the array, a removal from it, and a list whose
\* second operation is a test
RichOps ==
  {<<Op("replace", <<"x">>, 1)>>,
   <<Op("add", <<"list", "0">>, 1)>>,
   <<Op("remove", <<"list", "0">>, Undef)>>,
   <<Op("replace", <<"x">>, 1), Op("test", <<"user", "name">>, 1)>>}

\* a patch authored outside the model, or relayed back to its author
RemotePatch(k, src, ops) ==
  [id |-> MaxPatches + k, timestamp |-> 0, source |-> src, operations |-> ops, version |-> k]

\* the envelopes a channel can hand to the broadcaster
InboundMsgs ==
  {[source |-> s, data |-> RemotePatch(1, a, ops)] : s \in Coords, a \in Coords, ops \in RichOps}

\* the objects a direct assignment to one property can produce
FieldDocs(d) ==
  {[d EXCEPT !.x = v] : v \in ValU} \cup {[d EXCEPT !.user.name = v] : v \in Val}

\* the `paths` filters of the diff specification
PathCfgs == {<<>>, <<"x">>, <<"user.name">>}

(***************************************************************************)
(* Spec: one coordinator, its connection, its offline queue and the        *)
(* flushes, with local changes to x.                                       *)
(***************************************************************************)
Init == InitWith({EmptyDoc}, {<<>>}, {<<>>}, {MaxDelay})

Next ==
  \/ Watch(1, BOOLEAN)
  \/ ConnectComplete(1)
  \/ Unwatch(1)
  \/ Update(1, XOps, PatchIds)
  \/ Sync(1, PatchIds)
  \/ FlushQueue(1)
  \/ \E f \in FlushIds : FlushGetAll(1, f)
  \/ \E f \in FlushIds : FlushSend(1, f)
  \/ \E f \in FlushIds : FlushRemove(1, f)
  \/ Tick

Spec == Init /\ [][Next]_vars

(***************************************************************************)
(* SpecFlush: the flush lock.  One coordinator, updates that fill the      *)
(* queue, and flushes started by connect() and by flushQueue().            *)
(***************************************************************************)
NextFlush ==
  \/ Watch(1, BOOLEAN)
  \/ ConnectComplete(1)
  \/ Unwatch(1)
  \/ Update(1, XOps, PatchIds)
  \/ FlushQueue(1)
  \/ \E f \in FlushIds : FlushGetAll(1, f)
  \/ \E f \in FlushIds : FlushSend(1, f)
  \/ \E f \in FlushIds : FlushRemove(1, f)

SpecFlush == Init /\ [][NextFlush]_vars

(***************************************************************************)
(* SpecInbound: one coordinator receiving messages.                        *)
(***************************************************************************)
InitInbound == InitWith({EmptyDoc}, {<<>>}, {<<>>} \cup {<<k>> : k \in PluginKinds}, {MaxDelay})

NextInbound ==
  \/ Watch(1, BOOLEAN)
  \/ ConnectComplete(1)
  \/ Unwatch(1)
  \/ Deliver(1, InboundMsgs)

SpecInbound == InitInbound /\ [][NextInbound]_vars

(***************************************************************************)
(* SpecApply: one coordinator applying operation lists, its own through    *)
(* update() and those of incoming patches.                                 *)
(***************************************************************************)
NextApply ==
  \/ Watch(1, BOOLEAN)
  \/ ConnectComplete(1)
  \/ Update(1, RichOps, PatchIds)
  \/ Deliver(1, InboundMsgs)

SpecApply == Init /\ [][NextApply]_vars

(***************************************************************************)
(* SpecDiff: one coordinator whose object the application changes and      *)
(* whose sync() diffs it, under each `paths` filter.                       *)
(***************************************************************************)
DiffIds == 1..MaxDiffPatches

InitDiff == InitWith({EmptyDoc}, PathCfgs, {<<>>}, {MaxDelay})

NextDiff ==
  \/ Watch(1, {TRUE})
  \/ Unwatch(1)
  \/ Mutate(1, FieldDocs(state[1]))
  \/ Sync(1, DiffIds)

SpecDiff == InitDiff /\ [][NextDiff]_vars

(***************************************************************************)
(* SpecConv: two coordinators on one channel, each changing x and          *)
(* receiving what the other posted.  A message is delivered once the       *)
(* receiver has its handler registered, so that no message is dropped.     *)
(***************************************************************************)
NextConv ==
  \E c \in Coords :
    \/ Watch(c, {TRUE})
    \/ ConnectComplete(c)
    \/ Update(c, {<<Op("replace", <<"x">>, SourceId(c))>>}, PatchIds)
    \/ (messageHandlers[c] > 0 /\ DeliverPeer(c))

SpecConv == Init /\ [][NextConv]_vars

(***************************************************************************)
(* SpecResolve: the conflict engine applied to pairs of patches, under     *)
(* each choice of resolver.                                                *)
(***************************************************************************)
\* operation lists of the patches handed to the conflict engine
ResolveOps ==
  {<<Op("replace", <<"x">>, 1)>>,
   <<Op("replace", <<"user", "name">>, 1)>>,
   <<Op("replace", <<"x">>, 0), Op("add", <<"list", "0">>, 1)>>,
   <<Op("remove", <<"list">>, Undef)>>,
   <<Op("replace", <<"x">>, 1), Op("replace", <<"x">>, 0)>>}

\* the patches of coordinator c that the conflict engine is handed
ResolvePatches(c) ==
  {NewPatch(c, ts, c, ops, ver) : ts \in 0..MaxTime, ops \in ResolveOps, ver \in 1..MaxPatches}

\* the engine keeps no state between calls: one call in each behaviour
NextResolve ==
  /\ lastCall.name = "new"
  /\ \/ Resolve(ResolvePatches(1), ResolvePatches(2))
     \/ HasConflicts(ResolvePatches(1), ResolvePatches(2))

SpecResolve == Init /\ [][NextResolve]_vars

(***************************************************************************)
(* SpecQueue: the offline queue on its own: patches are enqueued and       *)
(* flushed with send functions that resolve or reject.                     *)
(***************************************************************************)
NextQueue ==
  \/ Enqueue(1, PatchIds, 0..MaxTime)
  \/ FlushQueue(1)
  \/ \E f \in FlushIds : FlushGetAll(1, f)
  \/ \E f \in FlushIds : FlushSendWith(1, f, {"resolves", "rejects"})
  \/ \E f \in FlushIds : FlushRemove(1, f)

SpecQueue == Init /\ [][NextQueue]_vars

(***************************************************************************)
(* SpecStore: an OfflineQueue over either backend, the built-in object     *)
(* store or a custom StorageAdapter: patches are enqueued, listed, counted *)
(* and flushed.                                                            *)
(***************************************************************************)
InitStore == InitStored({EmptyDoc}, {<<>>}, {<<>>}, {MaxDelay}, BOOLEAN)

NextStore ==
  \/ Enqueue(1, PatchIds, 0..MaxTime)
  \/ GetAll(1)
  \/ GetStatus(1)
  \/ FlushQueue(1)
  \/ \E f \in FlushIds : FlushGetAll(1, f)
  \/ \E f \in FlushIds : FlushSendWith(1, f, {"resolves", "rejects"})
  \/ \E f \in FlushIds : FlushRemove(1, f)

SpecStore == InitStore /\ [][NextStore]_vars

(***************************************************************************)
(* SpecEcho: one coordinator that makes no change of its own: it receives  *)
(* the patches of its peer and calls sync().                               *)
(***************************************************************************)
NextEcho ==
  \/ Watch(1, {TRUE})
  \/ ConnectComplete(1)
  \/ Deliver(1, InboundMsgs)
  \/ Sync(1, PatchIds)

SpecEcho == Init /\ [][NextEcho]_vars

(***************************************************************************)
(* SpecLock: the offline queue over a backend whose requests can fail:     *)
(* getAll() and remove() resolve or reject, and so do the sends.           *)
(***************************************************************************)
NextLock ==
  \/ Enqueue(1, PatchIds, 0..MaxTime)
  \/ FlushQueue(1)
  \/ \E f \in FlushIds : FlushGetAllWith(1, f, StoreOutcomes)
  \/ \E f \in FlushIds : FlushSendWith(1, f, {"resolves", "rejects"})
  \/ \E f \in FlushIds : FlushRemoveWith(1, f, StoreOutcomes)

SpecLock == Init /\ [][NextLock]_vars

(***************************************************************************)
(* SpecOut: one coordinator producing patches with update() and sync(),    *)
(* connected or not, over sessions.                                        *)
(***************************************************************************)
\* update() arguments: no operation, a replace, an insertion into the array
OutOps ==
  {<<>>,
   <<Op("replace", <<"x">>, 1)>>,
   <<Op("add", <<"list", "0">>, 1)>>}

NextOut ==
  \/ Watch(1, {TRUE})
  \/ ConnectComplete(1)
  \/ Unwatch(1)
  \/ Update(1, OutOps, PatchIds)
  \/ Sync(1, PatchIds)

SpecOut == Init /\ [][NextOut]_vars

(***************************************************************************)
(* SpecReplay: one coordinator whose transport, once connected, accepts    *)
(* every message: patches queued while disconnected, and the flushes.      *)
(***************************************************************************)
\* postMessage does not throw: a patch handled while the coordinator and
\* its broadcaster are connected reaches the transport
TransportAccepts ==
  (isConnected[1] /\ bcConnected[1] /\ lastCall'.patch # NoPatch)
    => sentLog'[1] # sentLog[1]

NextReplay ==
  \/ Watch(1, {TRUE})
  \/ ConnectComplete(1)
  \/ Unwatch(1)
  \/ (Update(1, XOps, PatchIds) /\ TransportAccepts)
  \/ FlushQueue(1)
  \/ \E f \in FlushIds : FlushGetAll(1, f)
  \/ \E f \in FlushIds : (FlushSend(1, f) /\ TransportAccepts)
  \/ \E f \in FlushIds : FlushRemove(1, f)

SpecReplay == Init /\ [][NextReplay]_vars

(***************************************************************************)
(* SpecPlugins: one coordinator with up to MaxPlugins plugins, its own     *)
(* updates going through onSend and received patches through onReceive     *)
(* and onApply.                                                            *)
(***************************************************************************)
\* the plugins in their order of registration
PluginLists ==
  UNION {[1..n -> PluginKinds] : n \in 0..MaxPlugins}

\* a patch of the peer, in the peer's envelope
PluginMsgs ==
  {[source |-> SourceId(2), data |-> RemotePatch(1, SourceId(2), ops)] : ops \in XOps}

InitPlugins == InitWith({EmptyDoc}, {<<>>}, PluginLists, {MaxDelay})

NextPlugins ==
  \/ Watch(1, {TRUE})
  \/ ConnectComplete(1)
  \/ Update(1, XOps, PatchIds)
  \/ Deliver(1, PluginMsgs)

SpecPlugins == InitPlugins /\ [][NextPlugins]_vars

(***************************************************************************)
(* SpecPipeline: one coordinator with plugins producing patches both ways, *)
(* with update() and with sync() after assignments to the object.          *)
(***************************************************************************)
\* the objects an assignment to x can leave
XDocs(d) == {[d EXCEPT !.x = v] : v \in Val}

NextPipeline ==
  \/ Watch(1, {TRUE})
  \/ ConnectComplete(1)
  \/ Update(1, XOps, PatchIds)
  \/ Mutate(1, XDocs(state[1]))
  \/ Sync(1, PatchIds)

SpecPipeline == InitPlugins /\ [][NextPipeline]_vars

(***************************************************************************)
(* SpecWatch: one coordinator whose transport may fail to connect, with    *)
(* local changes made through update() and sync().                         *)
(***************************************************************************)
NextWatch ==
  \/ Watch(1, BOOLEAN)
  \/ ConnectComplete(1)
  \/ Unwatch(1)
  \/ Update(1, XOps, PatchIds)
  \/ Sync(1, PatchIds)

SpecWatch == Init /\ [][NextWatch]_vars

(***************************************************************************)
(* SpecSched: the debounced and the throttled wrapper of one coordinator,  *)
(* called at any time, their timers, and the cancellations.                *)
(***************************************************************************)
InitSched == InitWith({EmptyDoc}, {<<>>}, {<<>>}, 1..MaxDelay)

NextSched ==
  \/ Debounced(1)
  \/ DebouncedTimeout(1)
  \/ Throttled(1)
  \/ ThrottledTimeout(1)
  \/ Clear(1)
  \/ Unwatch(1)
  \/ Pass(MaxClock)

SpecSched == InitSched /\ [][NextSched]_vars

(***************************************************************************)
(* SpecEmit: handlers registered, removed and invoked.                     *)
(***************************************************************************)
NextEmit ==
  \/ On(1, Handlers)
  \/ Off(1, Handlers)
  \/ Emit(1)

SpecEmit == Init /\ [][NextEmit]_vars

(***************************************************************************)
(* Properties.                                                             *)
(***************************************************************************)
Peer(c) == CHOOSE d \in Coords : d # c

\* every patch a coordinator created was posted, and the peer has handled it
Exchanged ==
  \A c \in Coords :
    /\ isWatching[c]
    /\ store[c] = {}
    /\ Len(sentLog[c]) = version[c]
    /\ inbox[c] = Len(sentLog[Peer(c)])

\* C1: two coordinators that started from equal states and have each
\* handled every patch the other emitted hold equal states.
C1_Convergence == Exchanged => state[1] = state[2]

\* C2: a patch leaves the offline queue only when it has been handed to the
\* transport.
C2_AtLeastOnce ==
  [][\A p \in store[1] : p \notin store'[1] => p \in Range(sentLog'[1])]_vars

\* C3: a received patch whose source is the coordinator's own id is
\* discarded: the object is not changed, no 'sync' or other event is emitted
\* and no onApply hook runs.
C3_SelfEchoSuppressed ==
  [][(lastCall'.name = "deliver" /\ lastCall'.patch.source = SourceId(1))
       => (state' = state /\ events' = <<>> /\ hookCalls' = <<>>)]_vars

\* C3 happens: a registered handler is handed, in an envelope from somebody
\* else, a patch of the coordinator's own that would change its object, and
\* a plugin is installed.
C3_Witness ==
  /\ lastCall.name = "deliver"
  /\ lastCall.patch.source = SourceId(1)
  /\ lastCall.from # SourceId(1)
  /\ messageHandlers[1] > 0
  /\ plugins[1] # <<>>
  /\ jsonApplyPatch(state[1], lastCall.ops).ok
  /\ jsonApplyPatch(state[1], lastCall.ops).doc # state[1]

\* C4: an operation list that fails part-way, in update() or in a received
\* patch, leaves the watched object as it was before the call.
C4_AtomicApplication ==
  [][(lastCall'.name \in {"update", "deliver"} /\ "error" \in Range(events'))
       => state' = state]_vars

\* C5: delivering a patch a second time leaves the object as the first
\* delivery left it.
C5_IdempotentDelivery ==
  [][(lastCall.name = "deliver" /\ lastCall' = lastCall) => state' = state]_vars

\* C6: the patches of one coordinator reach the transport in increasing
\* version order.
C6_OutboundOrder ==
  \A i \in 1..Len(sentLog[1]), j \in 1..Len(sentLog[1]) :
    i < j => sentLog[1][i].version < sentLog[1][j].version

IsPrefix(s, t) == Len(s) <= Len(t) /\ SubSeq(t, 1, Len(s)) = s

\* C7: with a `paths` filter, every operation sync() emits has a path that
\* lies inside one of the configured paths.
C7_PathScoping ==
  (lastCall.name = "sync" /\ paths[1] # <<>>)
    => \A i \in 1..Len(lastCall.ops) :
         \E k \in 1..Len(paths[1]) : IsPrefix(Split(paths[1][k]), lastCall.ops[i].path)

\* C8 as stated: the first sync() after watch() emits no patch, whatever the
\* watched object holds by then.
C8_ColdStartSilence ==
  [][(lastCall'.name = "sync" /\ isWatching[1] /\ sinceWatch[1] \in {"fresh", "touched"})
       => (store' = store /\ sentLog' = sentLog /\ lastCall'.patch = NoPatch)]_vars

\* C8 amended: the first sync() after watch() emits no patch when the
\* watched object has not been changed since watch().
C8_FirstSyncOfUnchanged ==
  [][(lastCall'.name = "sync" /\ isWatching[1] /\ sinceWatch[1] = "fresh")
       => (store' = store /\ sentLog' = sentLog /\ lastCall'.patch = NoPatch)]_vars

\* C8 happens: the first sync() after a watch() of an object that already
\* had content has run, the object unchanged in between.
C8_Witness ==
  /\ lastCall.name = "sync"
  /\ lastCall.was = "fresh"
  /\ isWatching[1]
  /\ state[1] # EmptyDoc

\* C9: a coordinator is connected only while it is watching.
C9_ConnectedOnlyWhileWatching == isConnected[1] => isWatching[1]

\* C10: a flush() called while a flush is in progress does nothing: it
\* starts no second pass, sends nothing and removes nothing, so that at most
\* one pass over the queue is running at any time.
C10_NonReentrantFlush ==
  [][/\ Cardinality({f \in FlushIds : flushers'[1][f].pc # "idle"}) <= 1
     /\ (flushInProgress[1] /\ lastCall'.name \in {"flushQueue", "connect"})
          => (flushers' = flushers /\ store' = store /\ sentLog' = sentLog
              /\ flushInProgress' = flushInProgress)]_vars

\* C10 happens: flushQueue() was called while a pass was sending the queued
\* patches, and returned at the lock.
C10_Witness ==
  /\ lastCall.name = "flushQueue"
  /\ lastCall.res = "in-progress"
  /\ \E f \in FlushIds : flushers[1][f].pc = "send"
  /\ store[1] # {}

\* C18: with no custom and no configured resolver, resolveConflict returns
\* the incoming patch when its timestamp is strictly later and the local
\* patch otherwise.
C18_DefaultPolicy ==
  (lastCall.name = "resolveConflict" /\ lastCall.resolver = "lastWriteWins")
    => lastCall.patch = IF lastCall.incoming.timestamp > lastCall.local.timestamp
                        THEN lastCall.incoming ELSE lastCall.local

\* C18 happens: the default policy decided between a local patch and a
\* later incoming one.
C18_Witness ==
  /\ lastCall.name = "resolveConflict"
  /\ lastCall.resolver = "lastWriteWins"
  /\ lastCall.incoming.timestamp > lastCall.local.timestamp
  /\ lastCall.patch = lastCall.incoming

\* C19: under each built-in policy the resolved patch has an id that is
\* neither input's and the version max(local.version, incoming.version) + 1.
C19_FreshResolution ==
  (lastCall.name = "resolveConflict"
     /\ lastCall.resolver \in {"lastWriteWins", "merge", "pathBased"})
    => /\ IF lastCall.resolver = "lastWriteWins"
          THEN lastCall.patch.id \notin {lastCall.local.id, lastCall.incoming.id}
          ELSE lastCall.patch.id
                 \in {DerivedId(lastCall.local, lastCall.incoming, "merged"),
                      DerivedId(lastCall.local, lastCall.incoming, "path-resolved")}
       /\ lastCall.patch.version
            = Max(lastCall.local.version, lastCall.incoming.version) + 1

\* C20: resolveConflict returns a patch whatever the resolver does, and the
\* last-write-wins choice when the selected resolver throws.
C20_TotalResolution ==
  lastCall.name = "resolveConflict"
    => /\ lastCall.res = "returned"
       /\ lastCall.resolver = "throws"
            => lastCall.patch = IF lastCall.local.timestamp >= lastCall.incoming.timestamp
                                THEN lastCall.local ELSE lastCall.incoming

\* C20 happens: a resolver that throws was selected, and the incoming patch
\* was the later one.
C20_Witness ==
  /\ lastCall.name = "resolveConflict"
  /\ lastCall.resolver = "throws"
  /\ lastCall.incoming.timestamp > lastCall.local.timestamp
  /\ lastCall.patch = lastCall.incoming

\* C21: hasConflicts is true exactly when an operation path of one patch
\* equals an operation path of the other; a path lying under another one is
\* no conflict; and the answer is the same with the patches exchanged.
C21_ConflictDetection ==
  lastCall.name = "hasConflicts"
    => /\ lastCall.conflicts
            <=> \E i \in 1..Len(lastCall.local.operations),
                   j \in 1..Len(lastCall.incoming.operations) :
                  lastCall.local.operations[i].path = lastCall.incoming.operations[j].path
       /\ lastCall.reverse = lastCall.conflicts

\* C21 happens: one patch removes /list, the other adds /list/0, and no
\* conflict is reported.
C21_Witness ==
  /\ lastCall.name = "hasConflicts"
  /\ \E i \in 1..Len(lastCall.local.operations) :
       lastCall.local.operations[i].path = <<"list">>
  /\ \E j \in 1..Len(lastCall.incoming.operations) :
       lastCall.incoming.operations[j].path = <<"list", "0">>
  /\ ~lastCall.conflicts

\* C22: under the path-based policy, two patches with no operation path in
\* common resolve to a patch whose operations are those of the local patch
\* followed by those of the incoming patch, each exactly once.
C22_DisjointMerge ==
  (lastCall.name = "resolveConflict" /\ lastCall.resolver = "pathBased"
     /\ \A i \in 1..Len(lastCall.local.operations),
           j \in 1..Len(lastCall.incoming.operations) :
          lastCall.local.operations[i].path # lastCall.incoming.operations[j].path)
    => lastCall.patch.operations
         = lastCall.local.operations \o lastCall.incoming.operations

\* C22 happens: the path-based policy merged a patch on /user/name with a
\* patch of two operations on /x and /list/0.
C22_Witness ==
  /\ lastCall.name = "resolveConflict"
  /\ lastCall.resolver = "pathBased"
  /\ Len(lastCall.local.operations) = 1
  /\ lastCall.local.operations[1].path = <<"user", "name">>
  /\ Len(lastCall.incoming.operations) = 2
  /\ Len(lastCall.patch.operations) = 3

\* C23: a received patch that reaches handlePatch from another source and
\* shares an operation path with a patch created locally and still waiting
\* in the offline queue is resolved against it: a 'conflict' event is
\* emitted.
C23_InboundConflict ==
  [][(/\ lastCall'.name = "deliver"
      /\ lastCall'.from # SourceId(1)
      /\ ~isOwnPatch(1, lastCall'.patch)
      /\ messageHandlers[1] > 0
      /\ processPlugins(plugins[1], "onReceive", lastCall'.patch).data # NoPatch
      /\ \E p \in store[1] : hasConflicts(p, lastCall'.patch))
       => "conflict" \in Range(events')]_vars

\* C24: when a plugin returns null from onSend the patch of update() is
\* neither posted nor enqueued, and when one returns null from onReceive
\* the received patch does not change the object, whatever the plugins
\* registered after it do.
C24_PluginVeto ==
  [][(\E i \in 1..Len(plugins[1]) : plugins[1][i] = "null")
       => /\ (lastCall'.name = "update" /\ lastCall'.res = "applied")
               => (store'[1] = store[1] /\ sentLog'[1] = sentLog[1])
          /\ lastCall'.name = "deliver" => state' = state]_vars

\* the 'plugin-error' events among es
PluginErrors(es) == {k \in 1..Len(es) : es[k] = "plugin-error"}

\* the hooks of a trace that threw
Thrown(trace) == {k \in 1..Len(trace) : trace[k].threw}

\* C25: when a hook throws during update() or the handling of a received
\* patch, a 'plugin-error' event with that plugin's id is emitted, the hook
\* of the next plugin is invoked with the data the throwing hook was given,
\* processedData is unchanged, and the caller goes on: update() emits
\* 'update' and no 'error'.
C25_FaultIsolation ==
  lastCall.name \in {"update", "deliver"}
    => /\ \A k \in Thrown(lastCall.trace) :
            LET t == lastCall.trace[k]
            IN  /\ t.pluginId = t.plugin
                /\ t.after = t.given
                /\ t.plugin < Len(plugins[1])
                     => /\ k < Len(lastCall.trace)
                        /\ lastCall.trace[k + 1].hook = t.hook
                        /\ lastCall.trace[k + 1].plugin = t.plugin + 1
                        /\ lastCall.trace[k + 1].given = t.given
       /\ Cardinality(PluginErrors(events)) = Cardinality(Thrown(lastCall.trace))
       /\ (lastCall.name = "update" /\ Thrown(lastCall.trace) # {})
            => ("update" \in Range(events) /\ "error" \notin Range(events))

\* C25 happens: the onSend hook of the first plugin threw, the second
\* plugin rewrote the patch, and the rewritten patch was posted.
C25_Witness ==
  /\ lastCall.name = "update"
  /\ Len(plugins[1]) = 2
  /\ plugins[1][1] = "throw"
  /\ plugins[1][2] = "rewrite"
  /\ Len(lastCall.trace) = 2
  /\ lastCall.trace[2].given = lastCall.patch
  /\ sentLog[1] # <<>>
  /\ sentLog[1][Len(sentLog[1])].operations = RewriteOps

\* the calls of wrapper fn and the invocations it made, in order
CallsOf(fn) == SelectSeq(calls[1], LAMBDA x : x.fn = fn)

InvokedBy(fn) == SelectSeq(invoked[1], LAMBDA x : x.fn = fn)

\* how often the wrapped function was invoked with the arguments args
Times(fn, args) ==
  Cardinality({i \in 1..Len(InvokedBy(fn)) : InvokedBy(fn)[i].args = args})

\* C26: the debounced function is invoked only for the last call of a burst
\* (a call that no call follows within less than `delay`), `delay` after
\* that call and with its arguments, and exactly once for every burst whose
\* timer has fallen due.
C26_DebounceCoalescing ==
  LET cs == CallsOf("debounce")
      is == InvokedBy("debounce")
      D == debouncedSync[1].delay
      Final(k) == k = Len(cs) \/ cs[k + 1].at - cs[k].at >= D
  IN  /\ \A i \in 1..Len(is) :
           \E k \in 1..Len(cs) :
             Final(k) /\ is[i].args = cs[k].args /\ is[i].at = cs[k].at + D
      /\ \A k \in 1..Len(cs) :
           /\ Times("debounce", cs[k].args) <= 1
           /\ (Final(k) /\ (k < Len(cs) \/ now > cs[k].at + D))
                => Times("debounce", cs[k].args) = 1

\* C26 happens: two calls at different instants less than `delay` apart,
\* and one invocation, with the arguments of the second.
C26_Witness ==
  /\ Len(CallsOf("debounce")) = 2
  /\ CallsOf("debounce")[2].at > CallsOf("debounce")[1].at
  /\ CallsOf("debounce")[2].at - CallsOf("debounce")[1].at < debouncedSync[1].delay
  /\ Len(InvokedBy("debounce")) = 1
  /\ InvokedBy("debounce")[1].args = CallsOf("debounce")[2].args

\* the pending timers of the throttled wrapper
PendingThrottle == {t \in timers : t.c = 1 /\ t.fn = "throttle"}

C28_Cancellation ==
  lastCall.name \in {"unwatch", "clear"} => \A t \in timers : t.c # 1

C30_EventDispatch ==
  lastCall.name = "emit"
    => \A k \in 1..Len(eventHandlers[1]) :
         \E j \in 1..Len(lastCall.invoked) : lastCall.invoked[j] = eventHandlers[1][k]


\* C31: queue store round trip.  A getAll() that follows an enqueue(p), with
\* nothing removed or cleared in between, returns p, and a getStatus() that
\* follows it counts p as pending, whichever backend the queue is built on.
C31_StoreRoundTrip ==
  [][lastCall.name = "enqueue" =>
       /\ lastCall'.name = "getAll" => lastCall.patch \in Range(lastCall'.trace)
       /\ lastCall'.name = "getStatus" => lastCall'.from >= 1]_vars

\* the operations of `ops` on path p, in order
OnPath(ops, p) == SelectSeq(ops, LAMBDA o : o.path = p)

\* C32: path-based resolution of overlapping patches.  In the patch the
\* path-based policy returns, the operations on a path of both patches are
\* those of the patch with the later timestamp (the local one on a tie) and
\* no others, and the operations on a path of one patch only are that
\* patch's, each exactly once.
C32_PathBasedResolution ==
  (lastCall.name = "resolveConflict" /\ lastCall.resolver = "pathBased") =>
    LET local == lastCall.local
        incoming == lastCall.incoming
        later == IF incoming.timestamp > local.timestamp THEN incoming ELSE local
    IN  \A p \in Range(extractPaths(local.operations \o incoming.operations)) :
          OnPath(lastCall.patch.operations, p)
            = IF p \in conflictingPaths(local, incoming)
              THEN OnPath(later.operations, p)
              ELSE OnPath(local.operations, p) \o OnPath(incoming.operations, p)

\* C33: re-rooting of filtered diffs.  The operations a sync() emits under a
\* `paths` filter address, from the root of the object, the configured
\* paths that changed: each operation's path starts with the pointer of a
\* configured path, and applying the operations to the previous baseline
\* gives the current value at every configured path.
C33_ReRooting ==
  [][(lastCall'.name = "sync" /\ isWatching[1] /\ paths[1] # <<>>
        /\ ~previousState[1].isNull)
       => LET r == jsonApplyPatch(previousState[1].doc, lastCall'.ops)
          IN  /\ \A i \in 1..Len(lastCall'.ops) :
                   \E k \in 1..Len(paths[1]) :
                     IsPrefix(Split(paths[1][k]), lastCall'.ops[i].path)
              /\ r.ok
              /\ \A k \in 1..Len(paths[1]) :
                   getPathValue(r.doc, paths[1][k]) = getPathValue(state[1], paths[1][k])]_vars

\* C34: the diff baseline.  After watch() (setInitialState) and after every
\* sync() of a watching coordinator (generatePatch) the baseline equals the
\* object as it was passed; an assignment to the live object leaves the
\* baseline alone; without a `paths` filter a sync() emits a patch exactly
\* when the object differs from the baseline; and a sync() that directly
\* follows a sync() emits nothing.
C34_DiffBaseline ==
  [][/\ (lastCall'.name = "watch" \/ (lastCall'.name = "sync" /\ isWatching[1]))
         => previousState'[1] = [isNull |-> FALSE, doc |-> state'[1]]
     /\ lastCall'.name = "mutate" => previousState'[1] = previousState[1]
     /\ (lastCall'.name = "sync" /\ isWatching[1] /\ paths[1] = <<>>)
         => ((lastCall'.patch # NoPatch) <=> (state[1] # previousState[1].doc))
     /\ (lastCall'.name = "sync" /\ lastCall.name = "sync" /\ isWatching[1])
         => (lastCall'.patch = NoPatch /\ store' = store /\ sentLog' = sentLog)]_vars

\* C34 happens: without a filter, a sync() has emitted a patch for a changed
\* object and a later sync() of the object, unchanged since, has emitted
\* nothing.
C34_Witness ==
  /\ lastCall.name = "sync"
  /\ lastCall.res = "no-changes"
  /\ lastCall.was = "synced"
  /\ paths[1] = <<>>
  /\ usedIds # {}
  /\ state[1] # EmptyDoc

\* C35: operations of a coordinator that is not watching are no-ops.
\* watch() leaves isWatching true and unwatch() leaves it false, and an
\* update() or sync() called while isWatching is false changes neither the
\* watched object, nor the version, nor the transport, nor the offline queue.
C35_NotWatchingNoOp ==
  [][/\ lastCall'.name = "watch" => isWatching'[1]
     /\ lastCall'.name = "unwatch" => ~isWatching'[1]
     /\ (lastCall'.name \in {"update", "sync"} /\ ~isWatching[1])
         => UNCHANGED <<state, previousState, version, connVars, queueVars>>]_vars

\* C35 happens: update() has been called after an unwatch() that followed a
\* session in which a patch was produced.
C35_Witness ==
  /\ lastCall.name = "update"
  /\ lastCall.res = "not-watching"
  /\ ~isWatching[1]
  /\ version[1] > 0

\* C36: uniform outbound pipeline.  A call of update() or sync() that hands
\* a patch to the transport or to the offline queue has invoked the onSend
\* hook of every registered plugin on it first.
C36_UniformPipeline ==
  [][(lastCall'.name \in {"update", "sync"} /\ (store' # store \/ sentLog' # sentLog))
       => /\ Len(hookCalls') = Len(plugins[1])
          /\ \A i \in 1..Len(hookCalls') : hookCalls'[i] = "onSend"]_vars

\* C37: no double emission of local updates.  A sync() that directly
\* follows a successful update(), the object untouched in between, emits no
\* patch: nothing is sent and nothing is enqueued.
C37_NoDoubleEmission ==
  [][(lastCall.name = "update" /\ lastCall.res = "applied" /\ lastCall'.name = "sync")
       => (lastCall'.patch = NoPatch /\ store' = store /\ sentLog' = sentLog)]_vars

\* C38: no echo of remote changes.  A coordinator that changes nothing
\* itself emits no patch: a sync() that follows the application of a patch
\* received from the peer sends nothing and enqueues nothing.
C38_NoEcho ==
  [][lastCall'.name = "sync"
       => (lastCall'.patch = NoPatch /\ store' = store /\ sentLog' = sentLog)]_vars

\* C39: single inbound handler.  Whatever the sequence of watch() and
\* unwatch() calls and of connect() completions, the broadcaster holds at
\* most one message handler of the coordinator, so a message is handed to
\* handleMessage at most once.
C39_SingleHandler == messageHandlers[1] <= 1

\* C40: flush lock release.  A flush() that took the lock leaves
\* flushInProgress false when it ends, whether the queue was empty, sends
\* failed, or getAll() or remove() threw; and a flush() called while no
\* flush is running is not turned away as already in progress.
C40_FlushLockRelease ==
  [][/\ \A f \in FlushIds :
          (flushers[1][f].pc # "idle" /\ flushers'[1][f].pc = "idle")
            => ~flushInProgress'[1]
     /\ (lastCall'.name = "flushQueue" /\ \A f \in FlushIds : flushers[1][f].pc = "idle")
          => lastCall'.res = "started"]_vars

\* C40 happens: a flush has ended with remove() throwing, after a send had
\* succeeded, and the lock is free.
C40_Witness ==
  /\ lastCall.name = "flush-remove"
  /\ lastCall.res = "threw"
  /\ store[1] # {}
  /\ ~flushInProgress[1]

\* the flush pass that is at `pc`
FlusherAt(pc) == CHOOSE f \in FlushIds : flushers[1][f].pc = pc

\* C11: when a flush ends, the patches whose send resolved are out of the
\* queue, the patches whose send rejected are in it, and every patch the
\* flush read was handed to the send function.
C11_FlushOutcome ==
  [][lastCall'.name = "flush-remove"
       => LET fl == flushers[1][FlusherAt("remove")]
          IN  /\ \A p \in Range(fl.successful) : p \notin store'[1]
              /\ \A p \in Range(fl.failed) : p \in store'[1]
              /\ Range(fl.successful) \cup Range(fl.failed) = Range(fl.patches)]_vars

\* C11 happens: a flush has ended in which one send resolved and another
\* rejected, and the queue still holds a patch.
C11_Witness ==
  /\ lastCall.name = "flush-remove"
  /\ lastCall.res = "some-sent"
  /\ store[1] # {}
  /\ Cardinality(usedIds) > Cardinality(store[1])

\* C12: a flush hands the patches to the send function one after the
\* other, each no older than those handed over before it.
C12_FlushOrder ==
  [][lastCall'.name = "flush-send"
       => LET f == FlusherAt("send")
              fl == flushers[1][f]
          IN  /\ lastCall'.patch = fl.patches[fl.i]
              /\ flushers'[1][f].i = fl.i + 1
              /\ Len(fl.successful) + Len(fl.failed) = fl.i - 1
              /\ \A k \in 1..(fl.i - 1) :
                   fl.patches[k].timestamp <= lastCall'.patch.timestamp]_vars

\* C12 happens: a flush has sent two patches of which the older one has
\* the larger key.
C12_Witness ==
  /\ lastCall.name = "flush-send"
  /\ \E f \in FlushIds :
       LET fl == flushers[1][f]
       IN  /\ fl.i = 3
           /\ fl.patches[1].timestamp < fl.patches[2].timestamp
           /\ fl.patches[1].id > fl.patches[2].id


\* a call has produced an outbound patch
Produced == lastCall'.name \in {"update", "sync"} /\ lastCall'.patch # NoPatch

FlushEnds ==
  \/ lastCall'.name = "flush-remove"
  \/ lastCall'.name = "flush-getAll" /\ ~flushInProgress'[1]

C15_VersionMonotonicity ==
  [][/\ version'[1] >= version[1]
     /\ \A p \in store'[1] \cup Range(sentLog'[1]) : p.version <= version'[1]
     /\ Produced => /\ lastCall'.patch.version > version[1]
                    /\ version'[1] = lastCall'.patch.version]_vars

\* C15 happens: a sync() has created the patch that follows the one an
\* update() created.
C15_Witness ==
  /\ lastCall.name = "sync"
  /\ lastCall.patch # NoPatch
  /\ lastCall.patch.version = 2
  /\ version[1] = 2

\* C16: no patch in the offline queue or handed to the transport has an
\* empty operations list.
C16_NonEmptyPatches ==
  \A p \in store[1] \cup Range(sentLog[1]) : p.operations # <<>>

\* C17: an update(ops) of a watching coordinator whose operations apply
\* changes the watched object as ops say and creates exactly one patch, with
\* operations ops and the version that follows the coordinator's.
C17_UpdateResult ==
  [][(lastCall'.name = "update" /\ isWatching[1] /\ lastCall'.res # "threw")
       => LET ops == lastCall'.ops
              p == lastCall'.patch
          IN  /\ p # NoPatch
              /\ p.operations = ops
              /\ p.source = SourceId(1)
              /\ p.version = version[1] + 1
              /\ version'[1] = version[1] + 1
              /\ Cardinality(store'[1]) + Len(sentLog'[1])
                   = Cardinality(store[1]) + Len(sentLog[1]) + 1
              /\ p \in store'[1] \cup Range(sentLog'[1])
              /\ ops = <<>> => state'[1] = state[1]
              /\ ops = <<Op("replace", <<"x">>, 1)>>
                   => state'[1] = [state[1] EXCEPT !.x = 1]
              /\ ops = <<Op("add", <<"list", "0">>, 1)>>
                   => state'[1] = [state[1] EXCEPT !.list = <<1>> \o @]]_vars

\* C17 happens: update() has inserted into the array of a watched object
\* and its patch is the coordinator's second.
C17_Witness ==
  /\ lastCall.name = "update"
  /\ lastCall.res = "applied"
  /\ lastCall.ops = <<Op("add", <<"list", "0">>, 1)>>
  /\ state[1].list # <<>>
  /\ lastCall.patch.version = 2


=============================================================================
